---- MODULE Spec2Model ----
(***************************************************************************)
(* Model of server.js: the /api/inspect handler of the network inspector.  *)
(* A request carries a target URL; the handler validates it, fetches the   *)
(* document, extracts candidate resources, crawls linked stylesheets and   *)
(* probes every entry of the probe list in batches.                        *)
(*                                                                         *)
(* A URL string is a record [scheme, host, path] holding the three parts   *)
(* as they are written in the string: the scheme in the case it was typed  *)
(* ("" when the string has none), the host as a sequence of characters     *)
(* (an IPv6 literal is written in brackets) and the path.  JS null and     *)
(* undefined are the record Null.                                          *)
(***************************************************************************)
EXTENDS Integers, Sequences, FiniteSets, TLC

\* ------------------------------------------------------------ bounds
\* MAX_RESOURCES and CONCURRENCY are 200 and 8 in server.js (lines 12, 15);
\* the model runs the same code with small values of both.
MAX_RESOURCES == 3
CONCURRENCY == 2

\* the delay after which a probe's request is aborted, in ms
TIMEOUT == 20000

\* the longest document (number of elements) an inspection is given
MaxElems == 2

\* the clock advances by half a TIMEOUT at a time, MaxTicks times at most
MaxTicks == 4

\* ------------------------------------------------------------ strings
Null == [null |-> TRUE]

Str(scheme, host, path) == [scheme |-> scheme, host |-> host, path |-> path]

\* the empty string
Empty == Str("", <<>>, "")

\* a reference without scheme and host: "/a.png"
Rel(path) == Str("", <<>>, path)

\* String.prototype.toLowerCase on the characters hosts are written with
LowerChar(c) ==
  CASE c = "E" -> "e"
    [] c = "L" -> "l"
    [] OTHER -> c

ToLowerCase(h) == [i \in 1..Len(h) |-> LowerChar(h[i])]

\* the scheme as the URL parser keeps it (ASCII lower case)
LowerScheme(s) ==
  CASE s = "HTTP" -> "http"
    [] s = "HTTPS" -> "https"
    [] OTHER -> s

StartsWith(h, p) == Len(h) >= Len(p) /\ SubSeq(h, 1, Len(p)) = p

EndsWith(h, s) == Len(h) >= Len(s) /\ SubSeq(h, Len(h) - Len(s) + 1, Len(h)) = s

Has(h, c) == \E i \in 1..Len(h) : h[i] = c

\* the schemes whose URLs must carry a host
SpecialScheme(s) == LowerScheme(s) \in {"http", "https", "ftp"}

\* a host the URL parser accepts: not empty, and a colon only inside the
\* brackets of an IPv6 literal
ValidHost(h) ==
  /\ h # <<>>
  /\ ~Has(h, " ")
  /\ Has(h, ":") => (h[1] = "[" /\ h[Len(h)] = "]")
  /\ (Has(h, "[") \/ Has(h, "]")) => (h[1] = "[" /\ h[Len(h)] = "]")

\* new URL(u) does not throw
Parses(u) ==
  /\ u # Null
  /\ u.scheme # ""
  /\ SpecialScheme(u.scheme) => ValidHost(u.host)

\* url.protocol, without the colon
Protocol(u) == LowerScheme(u.scheme)

\* url.hostname: lower case; an IPv6 literal keeps its brackets
Hostname(u) == ToLowerCase(u.host)

\* url.href: the serialisation of a parsed URL
Href(u) ==
  Str(Protocol(u), Hostname(u),
      IF SpecialScheme(u.scheme) /\ u.path = "" THEN "/" ELSE u.path)

\* ------------------------------------------------------------ hosts
H_localhost == <<"l","o","c","a","l","h","o","s","t">>
H_LOCALHOST == <<"L","o","c","a","L","h","o","s","t">>
H_127_0_0_1 == <<"1","2","7",".","0",".","0",".","1">>
H_loopback6 == <<":",":","1">>
H_bracket6 == <<"[",":",":","1","]">>
H_printer_local == <<"p",".","l","o","c","a","l">>
H_10_0_0_1 == <<"1","0",".","0",".","0",".","1">>
H_127_9_9_9 == <<"1","2","7",".","9",".","9",".","9">>
H_192_168_0_1 == <<"1","9","2",".","1","6","8",".","0",".","1">>
H_169_254_0_1 == <<"1","6","9",".","2","5","4",".","0",".","1">>
H_example == <<"e","x",".","c","o","m">>
H_Example == <<"E","x",".","c","o","m">>
H_cdn == <<"c","d","n",".","c","o","m">>
H_100_0_0_1 == <<"1","0","0",".","0",".","0",".","1">>
H_local_example == <<"l","o","c","a","l",".","c","o","m">>

\* ------------------------------------------------------------ isBlockedUrl
PrivatePrefixes ==
  { <<"1","0",".">>, <<"1","2","7",".">>,
    <<"1","9","2",".","1","6","8",".">>, <<"1","6","9",".","2","5","4",".">> }

isBlockedUrl(u) ==
  IF ~Parses(u) THEN TRUE
  ELSE IF Protocol(u) \notin {"http", "https"} THEN TRUE
  ELSE LET host == Hostname(u) IN
    IF host = H_localhost \/ host = H_127_0_0_1 \/ host = H_loopback6 THEN TRUE
    ELSE IF EndsWith(host, <<".","l","o","c","a","l">>) THEN TRUE
    ELSE IF \E p \in PrivatePrefixes : StartsWith(host, p) THEN TRUE
    ELSE FALSE

\* ------------------------------------------------------------ absoluteUrl
\* new URL(relative, base).href, or null when it throws.  An undefined
\* relative is converted to the string "undefined", a path-relative reference.
absoluteUrl(base, relative) ==
  LET rel == IF relative = Null THEN Rel("/undefined") ELSE relative IN
  IF rel.scheme # ""
    THEN IF Parses(rel) THEN Href(rel) ELSE Null
  ELSE IF ~Parses(base) THEN Null
  ELSE IF rel.host # <<>>
    THEN IF ValidHost(rel.host) THEN Href(Str(base.scheme, rel.host, rel.path)) ELSE Null
  ELSE Href(Str(base.scheme, base.host, IF rel.path = "" THEN base.path ELSE rel.path))

\* ------------------------------------------------------------ findCssUrls
\* A CSS text is the sequence of the values its url(...) references capture
\* (each a non-empty string); the result keeps those that resolve.
RECURSIVE findCssUrls(_, _)
findCssUrls(cssText, base) ==
  IF cssText = <<>> THEN <<>>
  ELSE LET u == absoluteUrl(base, Head(cssText)) IN
       (IF u # Null THEN <<u>> ELSE <<>>) \o findCssUrls(Tail(cssText), base)

\* ------------------------------------------------------------ documents
\* An element of the parsed document: its tag, its rel, and the attributes
\* the extraction reads (Null when the attribute is absent).  srcset holds
\* the URL token of each comma-separated entry and style the url() values of
\* the style attribute, both as Urls(<<...>>); body holds the url() values of
\* a <style> element's text.
Urls(seq) == [urls |-> seq]

El(tag, rel, src, dataSrc, srcset, href, style, body) ==
  [tag |-> tag, rel |-> rel, src |-> src, dataSrc |-> dataSrc,
   srcset |-> srcset, href |-> href, style |-> style, body |-> body]

Blocked10 == Str("http", H_10_0_0_1, "/x")

Elements ==
  { El("script", "", Rel("/a.js"), Null, Null, Null, Null, <<>>),
    El("img", "", Null, Rel("/a.js"), Urls(<<Rel("/i.png"), Blocked10>>), Null,
       Urls(<<Rel("/s.png")>>), <<>>),
    El("link", "stylesheet", Null, Null, Null, Rel("/b.css"), Null, <<>>),
    El("iframe", "", Empty, Null, Null, Null, Null, <<>>) }

RECURSIVE SeqsUpTo(_, _)
SeqsUpTo(S, n) ==
  IF n = 0 THEN { <<>> }
  ELSE LET shorter == SeqsUpTo(S, n - 1) IN
       shorter \cup { Append(s, x) : s \in shorter, x \in S }

Documents == SeqsUpTo(Elements, MaxElems)

\* a JS value used as a condition: null, undefined and "" are falsy
Truthy(v) == v # Null /\ v # Empty

\* a || b
OrElse(a, b) == IF Truthy(a) THEN a ELSE b

Call(u, initiator) == [u |-> u, initiator |-> initiator]

RECURSIVE CallsOf(_, _, _)
CallsOf(refs, base, initiator) ==
  IF refs = <<>> THEN <<>>
  ELSE <<Call(absoluteUrl(base, Head(refs)), initiator)>>
         \o CallsOf(Tail(refs), base, initiator)

RECURSIVE CallsUrls(_, _)
CallsUrls(urls, initiator) ==
  IF urls = <<>> THEN <<>>
  ELSE <<Call(Head(urls), initiator)>> \o CallsUrls(Tail(urls), initiator)

\* the pushUrl calls one element causes in one of the eight extraction passes
ElementCalls(el, target, pass) ==
  CASE pass = 1 ->
         IF el.tag = "script" /\ el.src # Null
           THEN <<Call(absoluteUrl(target, el.src), "script")>> ELSE <<>>
    [] pass = 2 ->
         IF el.tag = "img"
           THEN <<Call(absoluteUrl(target, OrElse(el.src, el.dataSrc)), "img")>>
                \o (IF el.srcset # Null /\ el.srcset # Urls(<<>>)
                      THEN CallsOf(el.srcset.urls, target, "img-srcset") ELSE <<>>)
           ELSE <<>>
    [] pass = 3 ->
         IF el.tag = "link" /\ el.rel = "stylesheet"
           THEN <<Call(absoluteUrl(target, el.href), "stylesheet")>> ELSE <<>>
    [] pass = 4 ->
         IF el.tag = "link" /\ el.rel = "preload" /\ el.href # Null
           THEN <<Call(absoluteUrl(target, el.href), "preload")>> ELSE <<>>
    [] pass = 5 ->
         IF el.tag = "iframe"
           THEN <<Call(absoluteUrl(target, el.src), "iframe")>> ELSE <<>>
    [] pass = 6 ->
         IF el.tag \in {"audio", "video", "source"}
           THEN <<Call(absoluteUrl(target, el.src), "media")>> ELSE <<>>
    [] pass = 7 ->
         IF el.style # Null
           THEN CallsUrls(findCssUrls(el.style.urls, target), "inline-style") ELSE <<>>
    [] pass = 8 ->
         IF el.tag = "style"
           THEN CallsUrls(findCssUrls(el.body, target), "style-tag") ELSE <<>>

RECURSIVE PassCalls(_, _, _)
PassCalls(html, target, pass) ==
  IF html = <<>> THEN <<>>
  ELSE ElementCalls(Head(html), target, pass) \o PassCalls(Tail(html), target, pass)

\* every pushUrl call of the extraction, in the order the handler makes them
RECURSIVE ExtractionCalls(_, _, _)
ExtractionCalls(html, target, pass) ==
  IF pass > 8 THEN <<>>
  ELSE PassCalls(html, target, pass) \o ExtractionCalls(html, target, pass + 1)

\* ------------------------------------------------------------ pushUrl
\* The Map resources is the sequence of its entries in insertion order.
HasUrl(list, u) == \E i \in 1..Len(list) : list[i].url = u

Entry(u, initiator) == [url |-> u, initiator |-> initiator]

\* pushUrl as a plain Map.set: a URL already present takes the new initiator
pushUrl_Overwrite(resources, u, initiator) ==
  IF u = Null THEN resources
  ELSE IF isBlockedUrl(u) THEN resources
  ELSE IF ~HasUrl(resources, u) THEN Append(resources, Entry(u, initiator))
  ELSE [i \in 1..Len(resources) |->
          IF resources[i].url = u THEN Entry(u, initiator) ELSE resources[i]]

pushUrl(resources, u, initiator) ==
  IF u = Null THEN resources
  ELSE IF isBlockedUrl(u) THEN resources
  ELSE IF ~HasUrl(resources, u) THEN Append(resources, Entry(u, initiator))
  ELSE resources

RECURSIVE PushAll(_, _)
PushAll(resources, calls) ==
  IF calls = <<>> THEN resources
  ELSE PushAll(pushUrl(resources, Head(calls).u, Head(calls).initiator), Tail(calls))

\* the Map resources after the extraction passes
Extract(html, target) == PushAll(<<>>, ExtractionCalls(html, target, 1))

\* the array cssLinks: one entry (possibly null) per stylesheet link with href
RECURSIVE CssLinks(_, _)
CssLinks(html, target) ==
  IF html = <<>> THEN <<>>
  ELSE LET el == Head(html) IN
       (IF el.tag = "link" /\ el.rel = "stylesheet" /\ Truthy(el.href)
          THEN <<absoluteUrl(target, el.href)>> ELSE <<>>)
       \o CssLinks(Tail(html), target)

\* the initial toProbe array: the first MAX_RESOURCES entries of the Map
InitialToProbe(resources) ==
  SubSeq(resources, 1, IF Len(resources) < MAX_RESOURCES THEN Len(resources) ELSE MAX_RESOURCES)

\* the inner loop without its toProbe.find test
RECURSIVE AddCssUrls_NoDedup(_, _)
AddCssUrls_NoDedup(toProbe, extra) ==
  IF extra = <<>> THEN toProbe
  ELSE IF Len(toProbe) >= MAX_RESOURCES THEN toProbe
  ELSE AddCssUrls_NoDedup(Append(toProbe, Entry(Head(extra), "css-url")), Tail(extra))

\* the inner loop of the stylesheet crawl over the url()s of one stylesheet
RECURSIVE AddCssUrls(_, _)
AddCssUrls(toProbe, extra) ==
  IF extra = <<>> THEN toProbe
  ELSE IF Len(toProbe) >= MAX_RESOURCES THEN toProbe
  ELSE AddCssUrls(
         IF ~HasUrl(toProbe, Head(extra))
           THEN Append(toProbe, Entry(Head(extra), "css-url")) ELSE toProbe,
         Tail(extra))

\* the index of the next stylesheet link the crawl fetches, from index i on,
\* or 0 when the loop ends (end of list, null link, or toProbe full); blocked
\* links are passed over
RECURSIVE NextFetch(_, _, _)
NextFetch(links, i, tp) ==
  IF i > Len(links) THEN 0
  ELSE IF links[i] = Null \/ Len(tp) >= MAX_RESOURCES THEN 0
  ELSE IF isBlockedUrl(links[i]) THEN NextFetch(links, i + 1, tp)
  ELSE i

RECURSIVE Without(_, _)
Without(list, u) ==
  IF list = <<>> THEN <<>>
  ELSE (IF Head(list).url # u THEN <<Head(list)>> ELSE <<>>) \o Without(Tail(list), u)

Min(a, b) == IF a < b THEN a ELSE b

\* probes without the filter on the target's url
BuildProbes_NoFilter(target, tp) ==
  <<Entry(target, "document")>> \o SubSeq(tp, 1, Min(Len(tp), MAX_RESOURCES))

\* the array probes: the document first, then toProbe without the target
BuildProbes(target, tp) ==
  LET rest == Without(tp, target) IN
  <<Entry(target, "document")>> \o SubSeq(rest, 1, Min(Len(rest), MAX_RESOURCES))

\* ------------------------------------------------------------ the network
\* a nullable value: Null, or Some(v)
Some(v) == [v |-> v]

NaN == [nan |-> TRUE]

\* a response: its status and its content-type and content-length headers
Resp(status, ctype, cl) == [status |-> status, ctype |-> ctype, cl |-> cl]

\* res.ok
Ok(status) == status >= 200 /\ status =< 299

\* parseInt(cl, 10) on the header values the model's servers send
ParseInt(cl) ==
  CASE cl = "12" -> Some(12)
    [] cl = "0" -> Some(0)
    [] OTHER -> NaN

MainStatuses == {200}

HeadResponses ==
  { Resp(200, Some("text/css"), Some("12")),
    Resp(405, Null, Null),
    Resp(501, Null, Null) }

GetResponses == { Resp(200, Some("image/png"), Null) }

\* the byte length of the body a GET returns
BodyLengths == {7}

CssTexts ==
  { <<Blocked10, Rel("/f.woff"), Rel("/f.woff")>>,
    <<Rel("/b.css"), Rel("/page"), Rel("/f.woff")>> }

\* the strings a request body may carry as url (already trimmed): every
\* combination of a scheme, a host and a path as written
Schemes == {"", "http", "https", "HTTP", "ftp", "data"}

Hosts ==
  { <<>>, H_localhost, H_LOCALHOST, H_127_0_0_1, H_loopback6, H_bracket6,
    H_printer_local, H_10_0_0_1, H_127_9_9_9, H_192_168_0_1, H_169_254_0_1,
    H_example, H_Example, H_cdn, H_100_0_0_1, H_local_example }

Paths == {"", "/page"}

UrlStrings == { Str(s, h, p) : s \in Schemes, h \in Hosts, p \in Paths }

\* the targets whose inspections are followed to their end
Targets ==
  { Empty,
    Str("http", H_example, "/page"),
    Str("HTTP", H_Example, ""),
    Str("http", H_10_0_0_1, "/page") }

\* ------------------------------------------------------------ state
VARIABLES
  pc,          \* where the handler is: idle, mainFetch, cssFetch, probing, done
  clock,       \* Date.now(), in ms since the request arrived
  target,      \* the trimmed url of the request body
  httpStatus,  \* the status of the answer sent to the client, 0 before it
  errorKind,   \* which error answer was sent: "", missing, blocked, fetch
  mainStatus,  \* pageResp.status
  resources,   \* the Map resources, in insertion order
  cssLinks,    \* the array cssLinks
  cssIdx,      \* the index in cssLinks of the stylesheet being fetched
  toProbe,     \* the array toProbe
  probes,      \* the array probes
  chunkStart,  \* the loop variable i of the probe loop
  inflight,    \* the probeResource calls of the current chunk, by probe index:
               \* the await each is at (HEAD, GET, BODY, done), its local res,
               \* its local start, the deadline of its pending abort timer
               \* and its result object
  results,     \* the array results
  report,      \* the JSON report sent, Null before it
  requests,    \* every request issued so far: [phase, method, url]
  sent         \* per probe index: the requests its probeResource call issued

vars ==
  <<pc, clock, target, httpStatus, errorKind, mainStatus, resources,
    cssLinks, cssIdx, toProbe, probes, chunkStart, inflight, results, report,
    requests, sent>>

Req(phase, method, url) == [phase |-> phase, method |-> method, url |-> url]

Init ==
  /\ pc = "idle"
  /\ clock = 0
  /\ target = Null
  /\ httpStatus = 0
  /\ errorKind = ""
  /\ mainStatus = 0
  /\ resources = <<>>
  /\ cssLinks = <<>>
  /\ cssIdx = 0
  /\ toProbe = <<>>
  /\ probes = <<>>
  /\ chunkStart = 0
  /\ inflight = <<>>
  /\ results = <<>>
  /\ report = Null
  /\ requests = {}
  /\ sent = <<>>

\* ------------------------------------------------------------ probeResource
NewResult(url) ==
  [url |-> url, status |-> Null, ok |-> FALSE, contentType |-> Null,
   size |-> Null, timeMs |-> Null, methodTried |-> Null, error |-> Null,
   initiator |-> Null]

NoneSent == [head |-> 0, get |-> 0]

\* a chunk that takes every remaining probe
ChunkIndices_All(i, n) == (i + 1)..n

\* the indices of the chunk probes.slice(i, i + CONCURRENCY), 1-based
ChunkIndices(i, n) == (i + 1)..Min(i + CONCURRENCY, n)

\* chunk.map(...): every probeResource call of the chunk runs up to its first
\* await, the HEAD request
StartChunk(i, prbs, reqs, snt, res) ==
  LET idx == ChunkIndices(i, Len(prbs)) IN
  /\ pc' = "probing"
  /\ chunkStart' = i
  /\ inflight' =
       [k \in idx |->
          [step |-> "HEAD", res |-> Null, start |-> clock,
           timer |-> Some(clock + TIMEOUT),
           result |-> [NewResult(prbs[k].url) EXCEPT !.methodTried = Some("HEAD")]]]
  /\ requests' = reqs \cup { Req("probe", "HEAD", prbs[k].url) : k \in idx }
  /\ sent' = [k \in DOMAIN snt |->
                IF k \in idx THEN [snt[k] EXCEPT !.head = @ + 1] ELSE snt[k]]
  /\ results' = res
  /\ UNCHANGED <<httpStatus, report>>

\* lines 191-197: build probes and start the first chunk
BeginProbes(tp, reqs) ==
  LET prbs == BuildProbes(target, tp) IN
  /\ probes' = prbs
  /\ StartChunk(0, prbs, reqs, [k \in 1..Len(prbs) |-> NoneSent], <<>>)

\* a report whose main status is taken from the probe of the document
SendReport_MainFromProbe(res, reqs, snt) ==
  LET st == IF res[1].status = Null THEN 0 ELSE res[1].status.v IN
  /\ pc' = "done"
  /\ httpStatus' = 200
  /\ results' = res
  /\ report' =
       [fetchedUrl |-> target,
        main |-> [status |-> st, ok |-> Ok(st)],
        resources |-> SubSeq(res, 1, Min(Len(res), MAX_RESOURCES))]
  /\ inflight' = <<>>
  /\ requests' = reqs
  /\ sent' = snt
  /\ UNCHANGED chunkStart

\* res.json(...) of line 211
SendReport(res, reqs, snt) ==
  /\ pc' = "done"
  /\ httpStatus' = 200
  /\ results' = res
  /\ report' =
       [fetchedUrl |-> target,
        main |-> [status |-> mainStatus, ok |-> Ok(mainStatus)],
        resources |-> SubSeq(res, 1, Min(Len(res), MAX_RESOURCES))]
  /\ inflight' = <<>>
  /\ requests' = reqs
  /\ sent' = snt
  /\ UNCHANGED chunkStart

\* the results of a finished chunk, last probe first
RECURSIVE ChunkResults_Reversed(_, _, _)
ChunkResults_Reversed(infl, from, to) ==
  IF from > to THEN <<>>
  ELSE <<infl[to].result>> \o ChunkResults_Reversed(infl, from, to - 1)

\* the results of a finished chunk, in the order of the chunk (Promise.all)
RECURSIVE ChunkResults(_, _, _)
ChunkResults(infl, from, to) ==
  IF from > to THEN <<>>
  ELSE <<infl[from].result>> \o ChunkResults(infl, from + 1, to)

\* probeResource call k returns info, its timeMs set by the finally of line
\* 100; line 201 sets its initiator; when it was
\* the last of its chunk, Promise.all resolves, the chunk's results are pushed
\* and the loop goes on to the next chunk or to the report
Complete(k, info, reqs, snt) ==
  LET withInit == [info EXCEPT !.timeMs = Some(clock - inflight[k].start),
                               !.initiator = probes[k].initiator]
      infl == [inflight EXCEPT ![k].step = "done", ![k].res = Null,
                               ![k].timer = Null, ![k].result = withInit]
      last == Min(chunkStart + CONCURRENCY, Len(probes))
  IN
  IF \E j \in DOMAIN infl : infl[j].step # "done"
    THEN /\ inflight' = infl
         /\ requests' = reqs
         /\ sent' = snt
         /\ UNCHANGED <<pc, chunkStart, results, report, httpStatus>>
    ELSE LET res == results \o ChunkResults(infl, chunkStart + 1, last) IN
         IF chunkStart + CONCURRENCY < Len(probes)
           THEN StartChunk(chunkStart + CONCURRENCY, probes, reqs, snt, res)
           ELSE SendReport(res, reqs, snt)

\* lines 84-96 of probeResource, on the response res of the final request:
\* the step the call is at afterwards and its result
Settle(result, res) ==
  LET r1 == [result EXCEPT !.status = Some(res.status),
                           !.ok = Ok(res.status),
                           !.contentType = res.ctype]
      r2 == IF res.cl # Null /\ res.cl # Some("")
              THEN [r1 EXCEPT !.size = ParseInt(res.cl.v)] ELSE r1
      noSize == r2.size = Null \/ r2.size = Some(0) \/ r2.size = NaN
      body == noSize /\ r2.methodTried = Some("GET")
  IN [step |-> IF body THEN "BODY" ELSE "done",
      res |-> IF body THEN res ELSE Null, result |-> r2]

\* ------------------------------------------------------------ actions
\* a handler that issues the main fetch before it runs the safety filter
Inspect_FetchFirst(t) ==
  /\ pc = "idle"
  /\ target' = t
  /\ IF ~Truthy(t)
       THEN /\ pc' = "done" /\ httpStatus' = 400 /\ errorKind' = "missing"
            /\ UNCHANGED requests
       ELSE /\ requests' = requests \cup { Req("main", "GET", t) }
            /\ IF isBlockedUrl(t)
                 THEN pc' = "done" /\ httpStatus' = 400 /\ errorKind' = "blocked"
                 ELSE pc' = "mainFetch" /\ UNCHANGED <<httpStatus, errorKind>>
  /\ UNCHANGED <<clock, mainStatus, resources, cssLinks, cssIdx, toProbe,
                 probes, chunkStart, inflight, results, report, sent>>

\* POST /api/inspect, lines 105-116: validation, then the main fetch is issued
Inspect(t) ==
  /\ pc = "idle"
  /\ target' = t
  /\ IF ~Truthy(t)
       THEN /\ pc' = "done" /\ httpStatus' = 400 /\ errorKind' = "missing"
            /\ UNCHANGED requests
       ELSE IF isBlockedUrl(t)
         THEN /\ pc' = "done" /\ httpStatus' = 400 /\ errorKind' = "blocked"
              /\ UNCHANGED requests
         ELSE /\ pc' = "mainFetch"
              /\ requests' = requests \cup { Req("main", "GET", t) }
              /\ UNCHANGED <<httpStatus, errorKind>>
  /\ UNCHANGED <<clock, mainStatus, resources, cssLinks, cssIdx, toProbe,
                 probes, chunkStart, inflight, results, report, sent>>

\* lines 118-120: the main fetch (or reading its body) fails
MainFetchFail ==
  /\ pc = "mainFetch"
  /\ pc' = "done"
  /\ httpStatus' = 502
  /\ errorKind' = "fetch"
  /\ UNCHANGED <<clock, target, mainStatus, resources, cssLinks, cssIdx,
                 toProbe, probes, chunkStart, inflight, results, report, requests,
                 sent>>

\* the crawl loop of lines 172-188 from index i on, up to its next await
\* (a stylesheet fetch) or, when the loop ends, up to the first chunk's HEADs
CrawlFrom(i, links, tp) ==
  LET j == NextFetch(links, i, tp) IN
  /\ toProbe' = tp
  /\ IF j # 0
       THEN /\ pc' = "cssFetch"
            /\ cssIdx' = j
            /\ requests' = requests \cup { Req("css", "GET", links[j]) }
            /\ UNCHANGED <<probes, chunkStart, inflight, results, report,
                           httpStatus, sent>>
       ELSE /\ cssIdx' = 0
            /\ BeginProbes(tp, requests)

\* lines 116-173: the document arrives with status st and content doc; the
\* handler extracts the candidates, collects the stylesheet links, builds
\* toProbe and enters the crawl loop
MainFetchOk(st, doc) ==
  /\ pc = "mainFetch"
  /\ mainStatus' = st
  /\ resources' = Extract(doc, target)
  /\ cssLinks' = CssLinks(doc, target)
  /\ CrawlFrom(1, CssLinks(doc, target), InitialToProbe(Extract(doc, target)))
  /\ UNCHANGED <<clock, target, errorKind>>

\* line 185: the stylesheet fetch (or reading its text) throws
CssFetchFail ==
  /\ pc = "cssFetch"
  /\ CrawlFrom(cssIdx + 1, cssLinks, toProbe)
  /\ UNCHANGED <<clock, target, errorKind, mainStatus, resources, cssLinks>>

\* line 177: the stylesheet answers with a status that is not ok
CssFetchNotOk ==
  /\ pc = "cssFetch"
  /\ CrawlFrom(cssIdx + 1, cssLinks, toProbe)
  /\ UNCHANGED <<clock, target, errorKind, mainStatus, resources, cssLinks>>

\* lines 177-184: the stylesheet arrives; its url()s are added to toProbe
CssFetchOk(cssText) ==
  /\ pc = "cssFetch"
  /\ CrawlFrom(cssIdx + 1, cssLinks,
               AddCssUrls(toProbe, findCssUrls(cssText, cssLinks[cssIdx])))
  /\ UNCHANGED <<clock, target, errorKind, mainStatus, resources, cssLinks>>

Discovery ==
  <<target, errorKind, mainStatus, resources, cssLinks, cssIdx, toProbe, probes>>

\* lines 79-83: the HEAD of probe k is answered
HeadResponse(k, res) ==
  /\ pc = "probing"
  /\ k \in DOMAIN inflight
  /\ inflight[k].step = "HEAD"
  /\ IF res.status = 405 \/ res.status = 501
       THEN /\ inflight' = [inflight EXCEPT ![k].step = "GET",
                                            ![k].res = res,
                                            ![k].timer = Some(clock + TIMEOUT),
                                            ![k].result.methodTried = Some("GET")]
            /\ requests' = requests \cup { Req("probe", "GET", probes[k].url) }
            /\ sent' = [sent EXCEPT ![k].get = @ + 1]
            /\ UNCHANGED <<pc, chunkStart, results, report, httpStatus>>
       ELSE LET s == Settle(inflight[k].result, res) IN
            \* the final method is HEAD: no body is read
            Complete(k, s.result, requests, sent)
  /\ UNCHANGED <<clock, Discovery>>

\* a probe that sends its HEAD again when it fails
HeadFail_Retry(k) ==
  /\ pc = "probing"
  /\ k \in DOMAIN inflight
  /\ inflight[k].step = "HEAD"
  /\ requests' = requests \cup { Req("probe", "HEAD", probes[k].url) }
  /\ sent' = [sent EXCEPT ![k].head = @ + 1]
  /\ UNCHANGED <<pc, chunkStart, inflight, results, report, httpStatus>>
  /\ UNCHANGED <<clock, Discovery>>

\* a failing HEAD that aborts every probe of its chunk still in flight
HeadFail_AbortsChunk(k) ==
  /\ pc = "probing"
  /\ k \in DOMAIN inflight
  /\ inflight[k].step = "HEAD"
  /\ LET infl == [j \in DOMAIN inflight |->
                   IF inflight[j].step = "done" THEN inflight[j]
                   ELSE [step |-> "done", res |-> Null, start |-> inflight[j].start,
                         timer |-> Null,
                         result |-> [inflight[j].result EXCEPT
                                       !.error = Some("error"),
                                       !.timeMs = Some(clock - inflight[j].start),
                                       !.initiator = probes[j].initiator]]]
         last == Min(chunkStart + CONCURRENCY, Len(probes))
         res == results \o ChunkResults(infl, chunkStart + 1, last)
     IN IF chunkStart + CONCURRENCY < Len(probes)
          THEN StartChunk(chunkStart + CONCURRENCY, probes, requests, sent, res)
          ELSE SendReport(res, requests, sent)
  /\ UNCHANGED <<clock, Discovery>>

\* line 97: the HEAD of probe k fails (network error, timeout)
HeadFail(k) ==
  /\ pc = "probing"
  /\ k \in DOMAIN inflight
  /\ inflight[k].step = "HEAD"
  /\ Complete(k, [inflight[k].result EXCEPT !.error = Some("error")], requests, sent)
  /\ UNCHANGED <<clock, Discovery>>

\* lines 82-89: the fallback GET of probe k is answered
GetResponse(k, res) ==
  /\ pc = "probing"
  /\ k \in DOMAIN inflight
  /\ inflight[k].step = "GET"
  /\ LET s == Settle(inflight[k].result, res) IN
     IF s.step = "BODY"
       THEN \* line 56 has cleared the timer: the body is read without one
            /\ inflight' = [inflight EXCEPT ![k].step = "BODY",
                                            ![k].res = s.res,
                                            ![k].timer = Null,
                                            ![k].result = s.result]
            /\ UNCHANGED <<pc, chunkStart, results, report, httpStatus, requests, sent>>
       ELSE Complete(k, s.result, requests, sent)
  /\ UNCHANGED <<clock, Discovery>>

\* a failing fallback GET that leaves the status of the HEAD in the result
GetFail_KeepStatus(k) ==
  /\ pc = "probing"
  /\ k \in DOMAIN inflight
  /\ inflight[k].step = "GET"
  /\ Complete(k, [inflight[k].result EXCEPT !.status = Some(inflight[k].res.status),
                                            !.error = Some("error")],
              requests, sent)
  /\ UNCHANGED <<clock, Discovery>>

\* line 97: the fallback GET of probe k fails
GetFail(k) ==
  /\ pc = "probing"
  /\ k \in DOMAIN inflight
  /\ inflight[k].step = "GET"
  /\ Complete(k, [inflight[k].result EXCEPT !.error = Some("error")], requests, sent)
  /\ UNCHANGED <<clock, Discovery>>

\* lines 91-92: the body of the GET response is read, n bytes
BodyRead(k, n) ==
  /\ pc = "probing"
  /\ k \in DOMAIN inflight
  /\ inflight[k].step = "BODY"
  /\ Complete(k, [inflight[k].result EXCEPT !.size = Some(n)], requests, sent)
  /\ UNCHANGED <<clock, Discovery>>

\* lines 93-95: reading the body fails; the error is ignored
BodyFail(k) ==
  /\ pc = "probing"
  /\ k \in DOMAIN inflight
  /\ inflight[k].step = "BODY"
  /\ Complete(k, inflight[k].result, requests, sent)
  /\ UNCHANGED <<clock, Discovery>>

\* an abort of the HEAD of probe k that does not wait for its timer
HeadTimeout_Early(k) ==
  /\ pc = "probing"
  /\ k \in DOMAIN inflight
  /\ inflight[k].step = "HEAD"
  /\ inflight[k].timer # Null
  /\ Complete(k, [inflight[k].result EXCEPT !.error = Some("aborted")], requests, sent)
  /\ UNCHANGED <<clock, Discovery>>

\* lines 52-53 and 59-60: the timer of the HEAD of probe k fires, the request
\* is aborted and fetch rejects
HeadTimeout(k) ==
  /\ pc = "probing"
  /\ k \in DOMAIN inflight
  /\ inflight[k].step = "HEAD"
  /\ inflight[k].timer # Null
  /\ clock >= inflight[k].timer.v
  /\ Complete(k, [inflight[k].result EXCEPT !.error = Some("aborted")], requests, sent)
  /\ UNCHANGED <<clock, Discovery>>

\* the timer of the fallback GET of probe k fires
GetTimeout(k) ==
  /\ pc = "probing"
  /\ k \in DOMAIN inflight
  /\ inflight[k].step = "GET"
  /\ inflight[k].timer # Null
  /\ clock >= inflight[k].timer.v
  /\ Complete(k, [inflight[k].result EXCEPT !.error = Some("aborted")], requests, sent)
  /\ UNCHANGED <<clock, Discovery>>

\* time passes while probes are awaited
Tick ==
  /\ pc = "probing"
  /\ clock < MaxTicks * (TIMEOUT \div 2)
  /\ clock' = clock + TIMEOUT \div 2
  /\ UNCHANGED <<pc, httpStatus, chunkStart, inflight, results, report, requests,
                 sent, Discovery>>

ProbeIndices == 1..(MAX_RESOURCES + 1)

Next ==
  \/ \E t \in Targets : Inspect(t)
  \/ MainFetchFail
  \/ \E st \in MainStatuses, doc \in Documents : MainFetchOk(st, doc)
  \/ CssFetchFail
  \/ CssFetchNotOk
  \/ \E cssText \in CssTexts : CssFetchOk(cssText)
  \/ \E k \in ProbeIndices, res \in HeadResponses : HeadResponse(k, res)
  \/ \E k \in ProbeIndices : HeadFail(k)
  \/ \E k \in ProbeIndices, res \in GetResponses : GetResponse(k, res)
  \/ \E k \in ProbeIndices : GetFail(k)
  \/ \E k \in ProbeIndices, n \in BodyLengths : BodyRead(k, n)
  \/ \E k \in ProbeIndices : BodyFail(k)

Spec == Init /\ [][Next]_vars

\* the probes of a document of one script at most, with the clock running
\* and servers that send every kind of content-length
ProbeTargets == { Str("http", H_example, "/page") }

ProbeDocuments == { <<>>, <<El("script", "", Rel("/a.js"), Null, Null, Null, Null, <<>>)>> }

HeadResponsesAll ==
  HeadResponses \cup
    { Resp(200, Null, Null), Resp(200, Null, Some("0")), Resp(404, Null, Some("abc")) }

GetResponsesAll ==
  GetResponses \cup
    { Resp(200, Null, Some("12")), Resp(200, Null, Some("0")),
      Resp(200, Null, Some("abc")) }

ProbeNext ==
  \/ \E t \in ProbeTargets : Inspect(t)
  \/ \E st \in MainStatuses, doc \in ProbeDocuments : MainFetchOk(st, doc)
  \/ \E k \in ProbeIndices, res \in HeadResponsesAll : HeadResponse(k, res)
  \/ \E k \in ProbeIndices : HeadFail(k)
  \/ \E k \in ProbeIndices : HeadTimeout(k)
  \/ \E k \in ProbeIndices, res \in GetResponsesAll : GetResponse(k, res)
  \/ \E k \in ProbeIndices : GetFail(k)
  \/ \E k \in ProbeIndices : GetTimeout(k)
  \/ \E k \in ProbeIndices, n \in BodyLengths : BodyRead(k, n)
  \/ \E k \in ProbeIndices : BodyFail(k)
  \/ Tick

ProbeSpec == Init /\ [][ProbeNext]_vars

\* the HEAD of probe k ends: answered, failed, or aborted by its timer
HeadEnds(k) ==
  \/ \E res \in HeadResponsesAll : HeadResponse(k, res)
  \/ HeadFail(k)
  \/ HeadTimeout(k)

\* the fallback GET of probe k ends: answered, failed, or aborted by its timer
GetEnds(k) ==
  \/ \E res \in GetResponsesAll : GetResponse(k, res)
  \/ GetFail(k)
  \/ GetTimeout(k)

\* the same probes under the progress the code has: the document arrives, and
\* every request fetchWithTimeout issues ends, by its timer at the latest
\* (lines 52-53).  The timer is cleared as soon as fetch resolves (line 56):
\* nothing makes the read of a response body end, so it gets no fairness.
FairSpec ==
  /\ ProbeSpec
  /\ WF_vars(\E st \in MainStatuses, doc \in ProbeDocuments : MainFetchOk(st, doc))
  /\ \A k \in ProbeIndices : WF_vars(HeadEnds(k)) /\ WF_vars(GetEnds(k))

\* the inspections of documents whose elements lack the attribute their pass
\* reads, or carry a stylesheet href that does not resolve ("http://") or is
\* blocked
CrawlElements ==
  { El("link", "stylesheet", Null, Null, Null, Str("http", <<>>, ""), Null, <<>>),
    El("link", "stylesheet", Null, Null, Null, Blocked10, Null, <<>>),
    El("link", "stylesheet", Null, Null, Null, Rel("/b.css"), Null, <<>>),
    El("link", "stylesheet", Null, Null, Null, Null, Null, <<>>),
    El("img", "", Null, Null, Null, Null, Null, <<>>),
    El("iframe", "", Null, Null, Null, Null, Null, <<>>),
    El("video", "", Null, Null, Null, Null, Null, <<>>) }

CrawlDocuments == SeqsUpTo(CrawlElements, MaxElems)

CrawlNext ==
  \/ \E t \in ProbeTargets : Inspect(t)
  \/ MainFetchFail
  \/ \E st \in MainStatuses, doc \in CrawlDocuments : MainFetchOk(st, doc)
  \/ CssFetchFail
  \/ CssFetchNotOk
  \/ \E cssText \in CssTexts : CssFetchOk(cssText)
  \/ \E k \in ProbeIndices, res \in HeadResponses : HeadResponse(k, res)
  \/ \E k \in ProbeIndices : HeadFail(k)
  \/ \E k \in ProbeIndices, res \in GetResponses : GetResponse(k, res)
  \/ \E k \in ProbeIndices : GetFail(k)
  \/ \E k \in ProbeIndices, n \in BodyLengths : BodyRead(k, n)
  \/ \E k \in ProbeIndices : BodyFail(k)

CrawlSpec == Init /\ [][CrawlNext]_vars

\* the validation of every string of UrlStrings: the safety filter alone
FilterNext == \E t \in UrlStrings : Inspect(t)

FilterSpec == Init /\ [][FilterNext]_vars

\* ------------------------------------------------------------ properties
Urls_(list) == { list[i].url : i \in 1..Len(list) }

NoDuplicates(list) ==
  \A i, j \in 1..Len(list) : i # j => list[i].url # list[j].url

\* C1: every URL that is fetched (main GET, stylesheet GET, HEAD/GET probe) or
\* held in the candidate list (the Map resources, the array toProbe) is one
\* the safety filter lets pass, the css-url candidates included.
C1_EveryUrlPassedFilter ==
  /\ \A r \in requests : ~isBlockedUrl(r.url)
  /\ \A u \in Urls_(resources) \cup Urls_(toProbe) : ~isBlockedUrl(u)

\* what C2 says the filter blocks: strings that do not parse, schemes other
\* than http and https, and the hosts it lists (the IPv6 loopback is written
\* [::1] in a URL)
ClaimedBlocked(u) ==
  \/ ~Parses(u)
  \/ Protocol(u) \notin {"http", "https"}
  \/ Hostname(u) \in {H_localhost, H_127_0_0_1, H_bracket6}
  \/ EndsWith(Hostname(u), <<".","l","o","c","a","l">>)
  \/ \E p \in PrivatePrefixes : StartsWith(Hostname(u), p)

\* C2: isBlockedUrl is true exactly for the strings that do not parse, the
\* URLs of a scheme other than http(s) and the URLs whose host is localhost,
\* 127.0.0.1, ::1, ends in .local or starts with 10., 127., 192.168., 169.254.
C2_FilterVerdict ==
  (pc # "idle" /\ Truthy(target)) =>
    ((errorKind = "blocked") <=> ClaimedBlocked(target))

C5_CandidateCap ==
  /\ Len(resources) <= MAX_RESOURCES
  /\ Len(toProbe) <= MAX_RESOURCES

ReinsertTags == {"img", "media"}

\* C7: inserting a URL that is already a candidate changes nothing, also
\* under another initiator: pushUrl on the Map, the css-url insertion on
\* toProbe; neither list ever holds a URL twice.
C7_ReinsertionChangesNothing ==
  /\ \A i \in 1..Len(resources), tag \in ReinsertTags :
       pushUrl(resources, resources[i].url, tag) = resources
  /\ \A i \in 1..Len(toProbe) :
       AddCssUrls(toProbe, <<toProbe[i].url>>) = toProbe
  /\ NoDuplicates(resources)
  /\ NoDuplicates(toProbe)

\* /a.js was pushed by a script and again by the img whose srcset gave /i.png:
\* it is recorded once, as script, before the img's other URL
C7_Witness ==
  \E i, j \in 1..Len(resources) :
    /\ i < j
    /\ resources[i] = Entry(Str("http", H_example, "/a.js"), "script")
    /\ resources[j].initiator = "img-srcset"

\* C8: results has one result per probe, in the order of probes: the i-th
\* result is the result for the i-th probe's URL and carries its initiator,
\* whatever the probes' outcomes and the order they complete in; while a
\* chunk is in flight results holds exactly the earlier chunks.
C8_ResultsFollowProbes ==
  /\ Len(results) <= Len(probes)
  /\ \A i \in 1..Len(results) :
       /\ results[i].url = probes[i].url
       /\ results[i].initiator = probes[i].initiator
  /\ \A k \in DOMAIN inflight : inflight[k].result.url = probes[k].url
  /\ pc = "probing" => Len(results) = chunkStart
  /\ report # Null => Len(results) = Len(probes)

\* a report over three probes of which the first failed and the second
\* succeeded through the fallback GET
C8_Witness ==
  /\ report # Null
  /\ Len(results) = 3
  /\ results[1].error # Null
  /\ results[2].error = Null
  /\ results[2].methodTried = Some("GET")

\* the probes of the current chunk that have not returned yet
InFlight == { k \in DOMAIN inflight : inflight[k].step # "done" }

\* C9: probes are started in consecutive chunks of CONCURRENCY in list order,
\* the last chunk holding the remainder; a probe of a later chunk has sent
\* nothing while the current chunk is in flight, every probe of an earlier
\* chunk has returned its result, and at most CONCURRENCY probes are in flight.
C9_ConsecutiveBatches ==
  pc = "probing" =>
    /\ chunkStart % CONCURRENCY = 0
    /\ chunkStart < Len(probes)
    /\ DOMAIN inflight = { k \in 1..Len(probes) :
                             chunkStart < k /\ k <= chunkStart + CONCURRENCY }
    /\ Cardinality(InFlight) <= CONCURRENCY
    /\ \A k \in 1..Len(probes) :
         /\ k > chunkStart + CONCURRENCY => (sent[k].head = 0 /\ sent[k].get = 0)
         /\ k <= chunkStart => (k <= Len(results) /\ sent[k].head = 1)
         /\ k \in DOMAIN inflight => sent[k].head = 1

\* CONCURRENCY + 1 probes: the second chunk is in flight and holds one probe
C9_Witness ==
  /\ pc = "probing"
  /\ Len(probes) = CONCURRENCY + 1
  /\ chunkStart = CONCURRENCY
  /\ InFlight = { CONCURRENCY + 1 }

\* the result probe k has so far: in its chunk's call, or in results
ResultOf(k) == IF k \in DOMAIN inflight THEN inflight[k].result ELSE results[k]

Started(k) == k \in DOMAIN inflight \/ k <= Len(results)

\* C10: each probe sends exactly one HEAD; it sends a GET, and then one only,
\* exactly when its HEAD was answered 405 or 501; nothing is sent again after
\* a failure; methodTried is GET exactly when the GET was sent.
C10_OneHeadGetOnlyOnFallback ==
  \A k \in 1..Len(probes) :
    /\ sent[k].head <= 1
    /\ sent[k].get <= 1
    /\ Started(k) =>
         /\ sent[k].head = 1
         /\ (ResultOf(k).methodTried = Some("GET")) <=> (sent[k].get = 1)
         /\ ResultOf(k).methodTried \in {Some("HEAD"), Some("GET")}
         \* a call waiting for its GET holds a HEAD response of 405 or 501
         /\ (k \in DOMAIN inflight /\ inflight[k].step = "GET") =>
              inflight[k].res.status \in {405, 501}
         \* a call that ended on its HEAD response was not answered 405 or 501
         /\ (ResultOf(k).methodTried = Some("HEAD") /\ ResultOf(k).status # Null) =>
              ResultOf(k).status \notin {Some(405), Some(501)}
         /\ Cardinality({ r \in requests : r.phase = "probe" /\ r.url = probes[k].url })
              = sent[k].head + sent[k].get

\* a report in which one probe went HEAD, 405 or 501, GET, and another failed
\* on its HEAD and sent nothing more
C10_Witness ==
  /\ report # Null
  /\ \E i, j \in 1..Len(results) :
       /\ results[i].methodTried = Some("GET") /\ sent[i].get = 1
       /\ results[j].methodTried = Some("HEAD") /\ results[j].error # Null
       /\ sent[j].head = 1 /\ sent[j].get = 0

\* the results probeResource has returned so far
Returned ==
  { results[i] : i \in 1..Len(results) } \cup
  { inflight[k].result : k \in { j \in DOMAIN inflight : inflight[j].step = "done" } }

\* C11: every result probeResource returns has exactly one of status and
\* error set: status is an integer and error is null, or error is a message
\* and status, contentType and size are all null.
C11_StatusXorError ==
  \A r \in Returned :
    \/ r.status # Null /\ r.status.v \in Int /\ r.error = Null
    \/ r.error # Null /\ r.status = Null /\ r.contentType = Null /\ r.size = Null

\* a fallback GET failed after its HEAD was answered, and the body read of
\* another probe's GET failed
C11_Witness ==
  /\ \E r \in Returned : r.methodTried = Some("GET") /\ r.error # Null
  /\ \E r \in Returned :
       r.methodTried = Some("GET") /\ r.status # Null /\ r.size = Null

\* C12: a probe whose request was aborted by its timeout returns a result with
\* error set, status null and timeMs of at least TIMEOUT (20000 ms).
C12_AbortedProbeResult ==
  \A r \in Returned :
    r.error = Some("aborted") =>
      /\ r.status = Null
      /\ r.timeMs # Null
      /\ r.timeMs.v >= TIMEOUT

\* one probe was aborted at its HEAD, another at its fallback GET
C12_Witness ==
  /\ \E r \in Returned : r.error = Some("aborted") /\ r.methodTried = Some("HEAD")
  /\ \E r \in Returned : r.error = Some("aborted") /\ r.methodTried = Some("GET")

\* where probe k stands: the await it is at and its result so far
ProbeState(k) ==
  IF k <= Len(results) THEN [step |-> "done", result |-> results[k]]
  ELSE [step |-> inflight[k].step, result |-> inflight[k].result]

\* C13: probes are isolated: a step of one probe (its failure, timeout or
\* abort included) leaves every other probe of the chunk at the await it was
\* at and with the result it had, and changes no result already pushed, so
\* the result of a probe depends on the network outcome of no other probe.
C13_ProbesIsolated ==
  [][ pc = "probing" =>
        /\ \A i \in 1..Len(results) : Len(results') >= i /\ results'[i] = results[i]
        /\ \A k \in DOMAIN inflight :
             ProbeState(k)' # ProbeState(k) =>
               \A j \in DOMAIN inflight \ {k} : ProbeState(j)' = ProbeState(j) ]_vars

\* one probe of a chunk has failed and another one of the same chunk is
\* still awaiting its fallback GET
C13_Witness ==
  /\ pc = "probing"
  /\ \E j, k \in DOMAIN inflight :
       /\ inflight[j].step = "done" /\ inflight[j].result.error # Null
       /\ inflight[k].step = "GET"

\* C14: when the input URL is missing (empty after trimming) or blocked by
\* the safety filter, the request ends with the validation failure (400) and
\* no network request of any kind has been issued, then or later.
C14_RejectedInputNoRequest ==
  (pc # "idle" /\ (~Truthy(target) \/ isBlockedUrl(target))) =>
    /\ pc = "done"
    /\ httpStatus = 400
    /\ errorKind \in {"missing", "blocked"}
    /\ report = Null
    /\ requests = {}

\* a non-empty URL was rejected by the safety filter
C14_Witness ==
  pc = "done" /\ Truthy(target) /\ isBlockedUrl(target) /\ errorKind = "blocked"

\* C15: for an input that passed validation, the inspection ends in the
\* whole-operation failure exactly when the main fetch failed, and then no
\* stylesheet fetch and no probe was issued; in every other case it ends with
\* a report, whatever the stylesheet fetches and the probes do.
C15_ReportUnlessMainFetchFails ==
  /\ []( (pc = "done" /\ errorKind \notin {"missing", "blocked"}) =>
           \/ /\ errorKind = "fetch" /\ httpStatus = 502 /\ report = Null
              /\ \A q \in requests : q.phase = "main"
           \/ errorKind = "" /\ httpStatus = 200 /\ report # Null )
  /\ (pc \in {"mainFetch", "cssFetch", "probing"}) ~> (pc = "done")

\* C17: every probe that starts eventually returns its result, whatever step
\* the server stops responding at (HEAD, fallback GET, body read).
C17_EveryProbeReturns ==
  \A k \in ProbeIndices :
    (k \in InFlight) ~> (k \notin InFlight /\ Started(k))

\* C16: the stylesheet crawl stops early only when the candidate cap is
\* reached: when the crawl is over and toProbe is below the cap, every
\* stylesheet link that resolves and is not blocked has been fetched, whatever
\* came before it in the list (an unresolvable, blocked, failing or
\* non-success link is skipped, it does not end the crawl).
C16_CrawlStopsOnlyAtCap ==
  (pc \in {"probing", "done"} /\ probes # <<>> /\ Len(toProbe) < MAX_RESOURCES) =>
    \A i \in 1..Len(cssLinks) :
      (cssLinks[i] # Null /\ ~isBlockedUrl(cssLinks[i]))
        => Req("css", "GET", cssLinks[i]) \in requests

\* a content-length header that is present and numeric
Numeric(cl) == cl # Null /\ cl # Some("") /\ ParseInt(cl.v) # NaN

\* C18: size is the integer value of content-length whenever the header is
\* numeric (0 included): the body is read only when the final method is GET
\* and the header is absent or not numeric, and a result whose final method is
\* HEAD never carries the length of a body.
C18_SizeFromContentLength ==
  /\ \A k \in DOMAIN inflight :
       inflight[k].step = "BODY" =>
         /\ inflight[k].result.methodTried = Some("GET")
         /\ ~Numeric(inflight[k].res.cl)
  /\ \A r \in Returned :
       (r.status # Null /\ r.methodTried = Some("HEAD")) =>
         r.size \notin { Some(n) : n \in BodyLengths }

\* the urls of a list of entries or results, in order
UrlSeq(list) == [i \in 1..Len(list) |-> list[i].url]

\* C19: whenever discovery ends with at most MAX_RESOURCES candidates, the
\* report's resources hold exactly one result for every candidate other than
\* the target, in candidate order.
C19_EveryCandidateReported ==
  (report # Null /\ Len(resources) <= MAX_RESOURCES) =>
    UrlSeq(Without(report.resources, target)) = UrlSeq(Without(toProbe, target))

Range(seq) == { seq[i] : i \in 1..Len(seq) }

\* the attribute values and url() references present in element el
RefsPresent(el) ==
  { v \in {el.src, el.dataSrc, el.href} : v # Null }
    \cup (IF el.srcset # Null THEN Range(el.srcset.urls) ELSE {})
    \cup (IF el.style # Null THEN Range(el.style.urls) ELSE {})
    \cup Range(el.body)

\* the references present in the elements the documents are made of
DocumentRefs == UNION { RefsPresent(el) : el \in Elements \cup CrawlElements }

\* C20: every candidate of the HTML extraction is the resolution of an
\* attribute value or url() reference present in the document, hence of one
\* of the references its elements can carry: an element that lacks the
\* attribute its pass reads (img without src and data-src, iframe, audio,
\* video or source without src, stylesheet link without href) adds no
\* candidate.
C20_CandidatesFromDocument ==
  \A i \in 1..Len(resources) :
    \E v \in DocumentRefs : resources[i].url = absoluteUrl(target, v)

====
